---- MODULE Spec2Model ----
(***************************************************************************)
(* Model of the polling navigation client (agent/planner.py,               *)
(* agent/agent.py, agent/sim_api.py) and of the parts of the bridge        *)
(* server (server.py) it talks to, of the server's WebSocket and HTTP      *)
(* handlers, and of its vision-driven push controller                      *)
(* (autonomous_controller, _plan_move_from_vision).                        *)
(*                                                                         *)
(* Specifications:                                                         *)
(*   SpecPick     one call of planner.pick_heading                         *)
(*   Spec         Navigator.run against the server and a simulator         *)
(*   FairSpec     Spec with weak fairness of the Navigator's steps         *)
(*   SpecServer   ws_handler and the collision endpoints                   *)
(*   SpecCapture  consecutive SimAPI.capture calls                         *)
(*   SpecPlan     one call of _plan_move_from_vision                       *)
(*   SpecPush     autonomous_controller with a simulator                   *)
(*   SpecTrial    autonomous_controller while /goal, /reset are posted     *)
(*   SpecQueue    autonomous_controller while clients post /capture        *)
(*   SpecThreads  ws_handler and reset as two threads at collision_count   *)
(*   SpecGeom     close_to_goal and goal_bearing_from_position             *)
(*                                                                         *)
(* Number representation.  Python floats are modelled as exact scaled      *)
(* integers:                                                               *)
(*   angles      whole degrees                                             *)
(*   costs       hundredths      (0.35 is 35, 1.0 is 100)                  *)
(*   weights     tenths          (1.2 is 12, 0.6 is 6)                     *)
(*   distances   tenths          (4.0 is 40, -2.4 is -24)                  *)
(*   scores      1/60000         (obs_w*oc + goal_w*|ang-goal|/60)         *)
(*   positions   whole arena units                                         *)
(*   timestamps  tenths          (1 is 10, 1.5 is 15)                      *)
(***************************************************************************)
EXTENDS Integers, Sequences, FiniteSets, TLC

VARIABLES
    \* ---- one call of planner.pick_heading (specification SpecPick) ----
    args,               \* the arguments of the call
    ret,                \* None before the call, then <<best_angle, best_cost>>
    \* ---- Navigator (agent.py) ----
    pc,                 \* position of Navigator.run
    max_steps,          \* NavigatorConfig.MAX_STEPS of this episode
    corner,             \* Navigator.corner
    moving,             \* Navigator.moving
    goal,               \* Navigator.goal
    collisions0,        \* run: collisions0
    coll_prev,          \* run: coll_prev
    total_collisions,   \* run: total_collisions
    steps,              \* run: steps
    pos,                \* run: pos of the frame of the current tick
    ang,                \* run: ang returned by pick_heading in the current tick
    c,                  \* run: c, the collision reading of the current tick
    error,              \* the exception that left run, None while there is none
    \* ---- bridge server (server.py) ----
    collision_count,    \* global collision_count
    connected,          \* TRUE iff the set `connected` is not empty
    sent,               \* move_relative commands broadcast, in order
    \* ---- history of what the environment answered ----
    acq,                \* outcome of the latest SimAPI.capture
    retried,            \* some capture of this episode returned no frame
    last_reading,       \* the latest collision reading (the snapshot at first)
    prev_reading,       \* the collision reading before the latest one
    seen_before,        \* coll_prev as it was when c was read
    close_seen,         \* some acquired frame was within GOAL_RADIUS
    trigger,            \* HTTP status of the latest POST /capture, 0 before it
    calls,              \* the requests run issued before its loop, and its resets
    \* ---- bridge server: handlers and autonomous_controller ----
    goal_reached_flag,  \* global goal_reached_flag
    image_queue,        \* global image_queue, the frames in it in order
    handled,            \* the message or request the server handled last
    response,           \* the body of the latest answer to a GET request
    ctl,                \* position of autonomous_controller
    msg,                \* autonomous_controller: msg
    broadcasts,         \* what autonomous_controller has passed to broadcast, in order
    iteration,          \* how far the controller's current iteration has come
    pending,            \* capture_image commands a simulator has not answered yet
    goal_sent,          \* position of the latest set_goal command broadcast
    \* ---- the WebSocket thread and the Flask thread at one counter ----
    loaded,             \* collision_count as line 64 read it, None when not in flight
    since_reset,        \* collision messages counted since the latest reset
    flask,              \* position of the Flask thread in the request it handles
    \* ---- one SimAPI instance (sim_api.py) ----
    last_capture_ts,    \* SimAPI._last_capture_ts
    served,             \* what GET /last_capture answers at present
    cap,                \* what the latest SimAPI.capture returned
    returned            \* the payloads capture has returned a frame of, in order

pickvars == <<args, ret>>
navvars  == <<pc, max_steps, corner, moving, goal, collisions0, coll_prev,
              total_collisions, steps, pos, ang, c, error>>
srvvars  == <<collision_count, connected, sent>>
histvars == <<acq, retried, last_reading, prev_reading, seen_before, close_seen,
              trigger, calls>>
pushvars == <<goal_reached_flag, image_queue, handled, response, ctl, msg, broadcasts,
              iteration, pending, goal_sent>>
racevars == <<loaded, since_reset, flask>>
capvars  == <<last_capture_ts, served, cap, returned>>
\* what Navigator.run and the server's handlers for it leave alone
restvars == <<pickvars, pushvars, capvars, racevars>>
vars     == <<pickvars, navvars, srvvars, histvars, pushvars, capvars, racevars>>

None == "None"

\* None where the program holds a position otherwise (a value TLC can compare
\* with a position record)
NoPosition == [none |-> TRUE]

\* None where the program holds a dict otherwise
NoMessage == [none |-> TRUE]

\* None where the program holds a number otherwise (no number of the model
\* is negative where None can stand)
NoNumber == -1

Abs(x) == IF x < 0 THEN -x ELSE x

Last(s) == s[Len(s)]

(***************************************************************************)
(* Bounds of the model.                                                    *)
(***************************************************************************)
MaxHeadings   == 3      \* longest cost field given to one pick_heading call
MaxStepsBound == 2      \* largest MAX_STEPS an episode is run with
MaxCollisions == 2      \* collision messages the simulator sends at most
MaxCaptures   == 2      \* frames one SimAPI instance is followed for
MaxBroadcasts == 5      \* messages the push controller is followed for
MaxTrialBroadcasts == 3 \* the same, while clients post requests besides

(***************************************************************************)
(* NavigatorConfig, agent.py lines 11-19.                                  *)
(***************************************************************************)
STEP_DIST    == 40
SAFE_THR     == 35
OBS_W        == 12
GOAL_W       == 6
FOV_DEG      == 120
NUM_HEADINGS == 31
GOAL_RADIUS  == 3

(***************************************************************************)
(* planner.pick_heading                                                    *)
(***************************************************************************)
\* line 13: float("inf"), a value above every score of the model
Inf == 1000000000

\* a mutant of Score: the error is signed, abs is lost
Score_SignedError(a, oc, goal_angle_deg, obs_w, goal_w) ==
    obs_w * oc * 60 + goal_w * (a - goal_angle_deg) * 100

\* lines 15-16 (and 23-24): score = obs_w * oc + goal_w * abs(ang - goal) / 60.0
Score(a, oc, goal_angle_deg, obs_w, goal_w) ==
    obs_w * oc * 60 + goal_w * Abs(a - goal_angle_deg) * 100

\* a mutant of SafeUpdate: the safety test is lost
SafeUpdate_NoThreshold(best, a, oc, score, safe_thr) ==
    IF score < best[2] THEN <<a, score>> ELSE best

\* a mutant of SafeUpdate: a tie replaces the incumbent
SafeUpdate_LastWins(best, a, oc, score, safe_thr) ==
    IF oc < safe_thr /\ score <= best[2] THEN <<a, score>> ELSE best

\* lines 17-19: the body of the first loop
SafeUpdate(best, a, oc, score, safe_thr) ==
    IF oc < safe_thr /\ score < best[2] THEN <<a, score>> ELSE best

\* lines 25-27: the body of the fallback loop
FallbackUpdate(best, a, score) ==
    IF score < best[2] THEN <<a, score>> ELSE best

\* lines 14-19: the first loop, from entry i on
RECURSIVE SafeLoop(_, _, _, _, _, _, _)
SafeLoop(heading_costs, i, goal_angle_deg, obs_w, goal_w, safe_thr, best) ==
    IF i > Len(heading_costs) THEN best
    ELSE LET a     == heading_costs[i][1]
             oc    == heading_costs[i][2]
             score == Score(a, oc, goal_angle_deg, obs_w, goal_w)
             \* best is updated once, and the loop goes on with its value
         IN  CHOOSE r \in { SafeLoop(heading_costs, i + 1, goal_angle_deg, obs_w,
                                     goal_w, safe_thr, updated) :
                                updated \in {SafeUpdate(best, a, oc, score, safe_thr)} } :
                        TRUE

\* lines 22-27: the fallback loop, from entry i on
RECURSIVE FallbackLoop(_, _, _, _, _, _)
FallbackLoop(heading_costs, i, goal_angle_deg, obs_w, goal_w, best) ==
    IF i > Len(heading_costs) THEN best
    ELSE LET a     == heading_costs[i][1]
             oc    == heading_costs[i][2]
             score == Score(a, oc, goal_angle_deg, obs_w, goal_w)
         IN  CHOOSE r \in { FallbackLoop(heading_costs, i + 1, goal_angle_deg, obs_w,
                                         goal_w, updated) :
                                updated \in {FallbackUpdate(best, a, score)} } :
                        TRUE

\* a mutant of pick_heading: the fallback pass is missing
pick_heading_NoFallback(heading_costs, goal_angle_deg, obs_w, goal_w, safe_thr) ==
    SafeLoop(heading_costs, 1, goal_angle_deg, obs_w, goal_w, safe_thr, <<0, Inf>>)

\* lines 5-28
pick_heading(heading_costs, goal_angle_deg, obs_w, goal_w, safe_thr) ==
    LET first == SafeLoop(heading_costs, 1, goal_angle_deg, obs_w, goal_w, safe_thr,
                          <<0, Inf>>)
    IN  IF first[2] = Inf
        THEN FallbackLoop(heading_costs, 1, goal_angle_deg, obs_w, goal_w, first)
        ELSE first

(***************************************************************************)
(* Pure helpers of the Navigator's tick.                                   *)
(***************************************************************************)
\* server.py line 34
FLOOR_HALF == 50
\* server.py line 40: margin=5
CornerMargin == 5

\* a corner name is the sequence of its (upper-case) letters
Has(name, letter) == \E i \in DOMAIN name : name[i] = letter

\* server.py lines 40-48
corner_to_coords(name) ==
    LET far == FLOOR_HALF - CornerMargin
        x0  == IF Has(name, "E") THEN far ELSE -far
        z0  == IF Has(name, "S") \/ Has(name, "B") THEN far ELSE -far
    IN  IF name \in {<<"N", "E">>, <<"E", "N">>, <<"T", "R">>} THEN [x |-> far, z |-> -far]
        ELSE IF name \in {<<"N", "W">>, <<"W", "N">>, <<"T", "L">>} THEN [x |-> -far, z |-> -far]
        ELSE IF name \in {<<"S", "E">>, <<"E", "S">>, <<"B", "R">>} THEN [x |-> far, z |-> far]
        ELSE IF name \in {<<"S", "W">>, <<"W", "S">>, <<"B", "L">>} THEN [x |-> -far, z |-> far]
        ELSE [x |-> x0, z |-> z0]

\* math.degrees(math.atan2(dx, dz)) where it is a whole number of degrees:
\* on the axes and on the diagonals
Atan2Deg(dx, dz) ==
    CASE dx = 0 /\ dz >= 0 -> 0
      [] dx = 0 /\ dz < 0  -> 180
      [] dz = 0 /\ dx > 0  -> 90
      [] dz = 0 /\ dx < 0  -> -90
      [] dx = dz /\ dx > 0 -> 45
      [] dx = dz /\ dx < 0 -> -135
      [] dx = -dz /\ dx > 0 -> 135
      [] dx = -dz /\ dx < 0 -> -45

\* a mutant of goal_bearing_from_position: atan2 with its arguments in the
\* order (dz, dx)
goal_bearing_from_position_Swapped(p, g) == Atan2Deg(g.z - p.z, g.x - p.x)

\* planner.py lines 37-45
goal_bearing_from_position(p, g) == Atan2Deg(g.x - p.x, g.z - p.z)

\* a mutant of close_to_goal: the boundary is left out
close_to_goal_Strict(p, g, radius) ==
    (g.x - p.x) * (g.x - p.x) + (g.z - p.z) * (g.z - p.z) < radius * radius

\* planner.py lines 48-51: (dx*dx + dz*dz) ** 0.5 <= radius
close_to_goal(p, g, radius) ==
    LET dx == g.x - p.x
        dz == g.z - p.z
    IN  dx * dx + dz * dz <= radius * radius

\* a mutant of step_from_heading: the turn is smoothed to half the angle
step_from_heading_Smoothed(angle_deg, step_dist) == <<angle_deg \div 2, step_dist>>

\* planner.py lines 31-34
step_from_heading(angle_deg, step_dist) == <<angle_deg, step_dist>>

\* agent.py line 113: -NavigatorConfig.STEP_DIST * 0.6
BackOffDist == -((STEP_DIST * 6) \div 10)

\* what obstacle_mask (vision.py lines 6-15) can make of a frame: the share
\* of occupied pixels in the column a heading projects to, in hundredths
Masks == {"clear", "left_wall", "blocked"}
ColumnCost(mask, a) ==
    CASE mask = "clear"     -> 0
      [] mask = "left_wall" -> IF a < 0 THEN 100 ELSE 0
      [] mask = "blocked"   -> 100

\* vision.py lines 18-32: np.linspace(-fov/2, fov/2, num) and a cost for each
sample_headings(mask, num, fov_deg) ==
    [i \in 1..num |->
        LET a == -(fov_deg \div 2) + ((i - 1) * fov_deg) \div (num - 1)
        IN  <<a, ColumnCost(mask, a)>>]

(***************************************************************************)
(* The bridge server's handlers, as far as the Navigator uses them.        *)
(***************************************************************************)
\* server.py lines 293-301: 200 and a broadcast when a simulator is
\* connected, 400 and nothing sent otherwise
MoveRelAccepted == connected

\* the robot positions the simulator reports, as offsets goal - pos whose
\* bearing is a whole number of degrees: at the goal radius, just outside it,
\* and far from the goal
GoalOffsets == {<<0, 3>>, <<0, 4>>, <<-30, -30>>}
Positions(g) == { [x |-> g.x - d[1], z |-> g.z - d[2]] : d \in GoalOffsets }

\* the corners a Navigator is made with: two of the names the server's error
\* text lists (line 328), and a name that is no corner
Corners == {<<"N", "E">>, <<"S", "W">>, <<"X", "X">>}

\* how SimAPI.capture (sim_api.py lines 83-128) returns without a frame: the
\* polling timed out (line 103), the payload holds no image (lines 111, 122),
\* its bytes are no image (cv2.imdecode gives None, line 125), or it holds no
\* position (line 127)
NoFrameReturns == {"timeout", "empty", "not_an_image", "no_position"}

\* agent.py line 83: the loop condition
LoopHead(n) == IF n < max_steps THEN "capture" ELSE "returned"

\* an exception leaves Navigator.run: nothing in run catches it (lines 77 and
\* 141-143 only release the video writer), and the locals of run go with its
\* frame
Raise(e) ==
    /\ pc' = "raised"
    /\ error' = e
    /\ collisions0' = 0 /\ coll_prev' = 0 /\ total_collisions' = 0 /\ steps' = 0
    /\ pos' = NoPosition /\ ang' = 0 /\ c' = 0
    /\ UNCHANGED <<max_steps, corner, moving, goal>>

\* server.py lines 27-32 and 421, while neither a simulator nor a client talks
\* to the server and autonomous_controller is not looked at
PushIdle ==
    /\ goal_reached_flag = FALSE /\ image_queue = <<>>
    /\ handled = NoMessage /\ response = NoMessage
    /\ ctl = "idle" /\ msg = NoMessage /\ broadcasts = <<>> /\ iteration = "none"
    /\ pending = {} /\ goal_sent = NoPosition

\* sim_api.py lines 10-13, while capture is not looked at
CaptureIdle ==
    /\ last_capture_ts = NoNumber /\ served = NoMessage
    /\ cap = NoMessage /\ returned = <<>>

\* server.py line 27 and lines 431-434: no message and no request is being
\* handled
RaceIdle ==
    /\ loaded = NoNumber /\ since_reset = 0 /\ flask = "idle"

Init ==
    /\ args = None /\ ret = None
    /\ pc = "reset"
    /\ max_steps \in 0..MaxStepsBound
    /\ corner \in Corners
    /\ moving \in BOOLEAN
    /\ goal = NoPosition
    /\ collisions0 = 0 /\ coll_prev = 0 /\ total_collisions = 0 /\ steps = 0
    /\ pos = NoPosition /\ ang = 0 /\ c = 0 /\ error = None
    /\ collision_count = 0
    /\ connected \in BOOLEAN
    /\ sent = <<>>
    /\ acq = None /\ retried = FALSE
    /\ last_reading = 0 /\ prev_reading = 0 /\ seen_before = 0
    /\ close_seen = FALSE
    /\ trigger = 0 /\ calls = <<>>
    /\ PushIdle /\ CaptureIdle /\ RaceIdle

\* agent.py line 68 -> sim_api.py lines 15-18 -> server.py lines 379-394
NavReset ==
    /\ pc = "reset"
    /\ collision_count' = 0
    /\ pc' = "set_goal"
    /\ calls' = Append(calls, "reset")
    /\ UNCHANGED <<max_steps, corner, moving, goal, collisions0, coll_prev,
                   total_collisions, steps, pos, ang, c, error>>
    /\ UNCHANGED <<connected, sent, restvars, acq, retried, last_reading, prev_reading,
                   seen_before, close_seen, trigger>>

\* agent.py line 69, lines 30-56 -> sim_api.py lines 20-23 -> server.py lines 320-333.
\* A 200 answer of this server always carries "goal", so the corner table of
\* lines 34-55 is not consulted; without a simulator the answer is 400 and
\* raise_for_status raises.
NavSetGoal ==
    /\ pc = "set_goal"
    /\ IF connected
       THEN /\ goal' = corner_to_coords(corner)
            /\ pc' = "obstacles"
            /\ UNCHANGED <<max_steps, corner, moving, collisions0, coll_prev,
                           total_collisions, steps, pos, ang, c, error>>
       ELSE Raise("HTTPError")
    /\ calls' = Append(calls, "set_goal")
    /\ UNCHANGED <<srvvars, restvars, acq, retried, last_reading, prev_reading,
                   seen_before, close_seen, trigger>>

\* a mutant of NavEnableObstacles: the obstacles are never set in motion
NavEnableObstacles_Never ==
    /\ pc = "obstacles"
    /\ pc' = "snapshot"
    /\ UNCHANGED <<max_steps, corner, moving, goal, collisions0, coll_prev,
                   total_collisions, steps, pos, ang, c, error>>
    /\ UNCHANGED <<srvvars, restvars, histvars>>

\* agent.py line 70, lines 58-65 -> sim_api.py lines 57-72 -> server.py lines 353-369
NavEnableObstacles ==
    /\ pc = "obstacles"
    /\ IF moving /\ ~connected
       THEN Raise("HTTPError")
       ELSE /\ pc' = "snapshot"
            /\ UNCHANGED <<max_steps, corner, moving, goal, collisions0, coll_prev,
                           total_collisions, steps, pos, ang, c, error>>
    /\ calls' = IF moving THEN Append(calls, "obstacle_motion") ELSE calls
    /\ UNCHANGED <<srvvars, restvars, acq, retried, last_reading, prev_reading,
                   seen_before, close_seen, trigger>>

\* agent.py lines 72-74 and 82-83 -> sim_api.py lines 52-55 -> server.py lines 374-377
NavSnapshot ==
    /\ pc = "snapshot"
    /\ collisions0' = collision_count
    /\ coll_prev' = collision_count
    /\ total_collisions' = 0
    /\ steps' = 0
    /\ pc' = LoopHead(0)
    /\ last_reading' = collision_count
    /\ prev_reading' = collision_count
    /\ calls' = Append(calls, "collisions")
    /\ UNCHANGED <<max_steps, corner, moving, goal, pos, ang, c, error>>
    /\ UNCHANGED <<srvvars, restvars, acq, retried, seen_before, close_seen, trigger>>

\* server.py lines 310-315: POST /capture is answered 200 when the request was
\* broadcast to a simulator, 400 when none is connected
CaptureTriggerStatus == IF connected THEN 200 ELSE 400

\* a mutant of CaptureNoFrame: a tick without a frame is counted as a step
CaptureNoFrame_CountsStep ==
    /\ pc = "capture"
    /\ \E kind \in NoFrameReturns : acq' = kind
    /\ retried' = TRUE
    /\ steps' = steps + 1
    /\ pc' = LoopHead(steps + 1)
    /\ UNCHANGED <<max_steps, corner, moving, goal, collisions0, coll_prev,
                   total_collisions, pos, ang, c, error>>
    /\ trigger' = CaptureTriggerStatus
    /\ UNCHANGED <<srvvars, restvars, last_reading, prev_reading, seen_before,
                   close_seen, calls>>

\* SimAPI.capture is taken as one step: the trigger (line 85, whose status
\* capture does not look at), the polling of /last_capture until a payload with a new
\* timestamp or the timeout (lines 88-100), and the decoding (lines 102-128).
\* What the simulator answers is the environment's choice among the three
\* actions below.
\*
\* agent.py lines 84-87 -> sim_api.py lines 83-103 and 121-128: capture
\* returns without an image or without a position; run sleeps and retries
CaptureNoFrame ==
    /\ pc = "capture"
    /\ \E kind \in NoFrameReturns : acq' = kind
    /\ retried' = TRUE
    /\ pc' = LoopHead(steps)
    /\ UNCHANGED <<max_steps, corner, moving, goal, collisions0, coll_prev,
                   total_collisions, steps, pos, ang, c, error>>
    /\ trigger' = CaptureTriggerStatus
    /\ UNCHANGED <<srvvars, restvars, last_reading, prev_reading, seen_before,
                   close_seen, calls>>

\* sim_api.py lines 122-125: base64.b64decode raises binascii.Error on text
\* that is not base64; neither capture nor run catches it
CaptureBadPayload ==
    /\ pc = "capture"
    /\ acq' = "bad_base64"
    /\ Raise("binascii.Error")
    /\ trigger' = CaptureTriggerStatus
    /\ UNCHANGED <<srvvars, restvars, retried, last_reading, prev_reading,
                   seen_before, close_seen, calls>>

\* agent.py lines 84-85: capture returns an image and a position
CaptureFrame ==
    /\ pc = "capture"
    /\ acq' = "frame"
    /\ \E p \in Positions(goal) :
          /\ pos' = p
          /\ close_seen' = (close_seen \/ close_to_goal(p, goal, GOAL_RADIUS))
    /\ pc' = "plan"
    /\ UNCHANGED <<max_steps, corner, moving, goal, collisions0, coll_prev,
                   total_collisions, steps, ang, c, error>>
    /\ trigger' = CaptureTriggerStatus
    /\ UNCHANGED <<srvvars, restvars, retried, last_reading, prev_reading,
                   seen_before, calls>>

\* agent.py lines 90-105 -> sim_api.py lines 34-41 -> server.py lines 293-301
NavPlanMove ==
    /\ pc = "plan"
    /\ \E mask \in Masks :
        \E headings \in {sample_headings(mask, NUM_HEADINGS, FOV_DEG)} :
        \E goal_bearing \in {goal_bearing_from_position(pos, goal)} :
        \E picked \in {pick_heading(headings, goal_bearing, OBS_W, GOAL_W, SAFE_THR)} :
          LET step == step_from_heading(picked[1], STEP_DIST)
          IN  IF MoveRelAccepted
              THEN /\ ang' = picked[1]
                   /\ sent' = Append(sent, step)
                   /\ pc' = "collisions"
                   /\ UNCHANGED <<max_steps, corner, moving, goal, collisions0,
                                  coll_prev, total_collisions, steps, pos, c, error>>
              ELSE Raise("HTTPError") /\ UNCHANGED sent
    /\ UNCHANGED <<collision_count, connected, restvars, histvars>>

\* a mutant of NavReadCollisions: coll_prev is not moved up to the reading
NavReadCollisions_KeepsPrev ==
    /\ pc = "collisions"
    /\ c' = collision_count
    /\ IF collision_count > coll_prev
       THEN /\ total_collisions' = total_collisions + (collision_count - coll_prev)
            /\ pc' = "backoff"
       ELSE /\ UNCHANGED total_collisions
            /\ pc' = "goal_check"
    /\ seen_before' = coll_prev
    /\ prev_reading' = last_reading
    /\ last_reading' = collision_count
    /\ UNCHANGED <<max_steps, corner, moving, goal, collisions0, coll_prev, steps,
                   pos, ang, error>>
    /\ UNCHANGED <<srvvars, restvars, acq, retried, close_seen, trigger, calls>>

\* agent.py lines 108-111 -> sim_api.py lines 52-55 -> server.py lines 374-377
NavReadCollisions ==
    /\ pc = "collisions"
    /\ c' = collision_count
    /\ IF collision_count > coll_prev
       THEN /\ total_collisions' = total_collisions + (collision_count - coll_prev)
            /\ coll_prev' = collision_count
            /\ pc' = "backoff"
       ELSE /\ UNCHANGED <<total_collisions, coll_prev>>
            /\ pc' = "goal_check"
    /\ seen_before' = coll_prev
    /\ prev_reading' = last_reading
    /\ last_reading' = collision_count
    /\ UNCHANGED <<max_steps, corner, moving, goal, collisions0, steps, pos, ang, error>>
    /\ UNCHANGED <<srvvars, restvars, acq, retried, close_seen, trigger, calls>>

\* a mutant of NavBackOff: one back-off step for each collision of the delta
NavBackOff_PerCollision ==
    /\ pc = "backoff"
    /\ IF MoveRelAccepted
       THEN /\ sent' = Append(sent, <<0, BackOffDist * (c - seen_before)>>)
            /\ pc' = "goal_check"
            /\ UNCHANGED <<max_steps, corner, moving, goal, collisions0, coll_prev,
                           total_collisions, steps, pos, ang, c, error>>
       ELSE Raise("HTTPError") /\ UNCHANGED sent
    /\ UNCHANGED <<collision_count, connected, restvars, histvars>>

\* agent.py lines 112-113 -> sim_api.py lines 34-41 -> server.py lines 293-301
NavBackOff ==
    /\ pc = "backoff"
    /\ IF MoveRelAccepted
       THEN /\ sent' = Append(sent, <<0, BackOffDist>>)
            /\ pc' = "goal_check"
            /\ UNCHANGED <<max_steps, corner, moving, goal, collisions0, coll_prev,
                           total_collisions, steps, pos, ang, c, error>>
       ELSE Raise("HTTPError") /\ UNCHANGED sent
    /\ UNCHANGED <<collision_count, connected, restvars, histvars>>

\* agent.py lines 116 and 134-135, 83: not at the goal, the tick is counted
\* and the loop condition is tested again
NavGoalCheck ==
    /\ pc = "goal_check"
    /\ IF close_to_goal(pos, goal, GOAL_RADIUS)
       THEN pc' = "stop" /\ UNCHANGED steps
       ELSE steps' = steps + 1 /\ pc' = LoopHead(steps + 1)
    /\ UNCHANGED <<max_steps, corner, moving, goal, collisions0, coll_prev,
                   total_collisions, pos, ang, c, error>>
    /\ UNCHANGED <<srvvars, restvars, histvars>>

\* a mutant of NavStop: the loop goes on after the stop command
NavStop_NoBreak ==
    /\ pc = "stop"
    /\ IF MoveRelAccepted
       THEN /\ sent' = Append(sent, <<0, 0>>)
            /\ steps' = steps + 1
            /\ pc' = LoopHead(steps + 1)
            /\ UNCHANGED <<max_steps, corner, moving, goal, collisions0, coll_prev,
                           total_collisions, pos, ang, c, error>>
       ELSE Raise("HTTPError") /\ UNCHANGED sent
    /\ UNCHANGED <<collision_count, connected, restvars, histvars>>

\* agent.py lines 117-118 and 140 -> sim_api.py lines 34-41 -> server.py lines 293-301
NavStop ==
    /\ pc = "stop"
    /\ IF MoveRelAccepted
       THEN /\ sent' = Append(sent, <<0, 0>>)
            /\ pc' = "returned"
            /\ UNCHANGED <<max_steps, corner, moving, goal, collisions0, coll_prev,
                           total_collisions, steps, pos, ang, c, error>>
       ELSE Raise("HTTPError") /\ UNCHANGED sent
    /\ UNCHANGED <<collision_count, connected, restvars, histvars>>

\* sim_api.py lines 16-17, 21-22, 35-40, 53-54, 70-71, 85: the server cannot
\* be reached, requests raises a ConnectionError out of the call
RequestPcs == {"reset", "set_goal", "snapshot", "capture", "plan", "collisions",
               "backoff", "stop"}

\* agent.py lines 68-72: the request run issues at each position before its loop
InitCall(at) ==
    CASE at = "reset"     -> "reset"
      [] at = "set_goal"  -> "set_goal"
      [] at = "obstacles" -> "obstacle_motion"
      [] at = "snapshot"  -> "collisions"

TransportFailure ==
    /\ pc \in RequestPcs \/ (pc = "obstacles" /\ moving)
    /\ Raise("ConnectionError")
    /\ acq' = IF pc = "capture" THEN "unreachable" ELSE acq
    /\ calls' = IF pc \in {"reset", "set_goal", "obstacles", "snapshot"}
                THEN Append(calls, InitCall(pc)) ELSE calls
    /\ UNCHANGED <<srvvars, restvars, retried, last_reading, prev_reading,
                   seen_before, close_seen, trigger>>

\* Navigator.run has neither returned nor raised: the episode the
\* environment acts on is still going
Running == pc \notin {"returned", "raised", "idle"}

\* server.py lines 56 and 85: a simulator connects, the last one disconnects
SimConnect ==
    /\ Running
    /\ ~connected
    /\ connected' = TRUE
    /\ UNCHANGED <<collision_count, sent, restvars, navvars, histvars>>

SimDisconnect ==
    /\ Running
    /\ connected
    /\ connected' = FALSE
    /\ UNCHANGED <<collision_count, sent, restvars, navvars, histvars>>

\* server.py lines 63-64: a collision message of a connected simulator.  The
\* counter is only ever raised while an episode runs: episodes are run one
\* after the other (scripts/run_level1.py lines 21-25), so no other client
\* resets it in between
SimCollision ==
    /\ Running
    /\ connected
    /\ collision_count < MaxCollisions
    /\ collision_count' = collision_count + 1
    /\ UNCHANGED <<connected, sent, restvars, navvars, histvars>>

Next ==
    \/ NavReset \/ NavSetGoal \/ NavEnableObstacles \/ NavSnapshot
    \/ CaptureNoFrame \/ CaptureBadPayload \/ CaptureFrame
    \/ NavPlanMove \/ NavReadCollisions \/ NavBackOff \/ NavGoalCheck \/ NavStop
    \/ TransportFailure
    \/ SimConnect \/ SimDisconnect \/ SimCollision

Spec == Init /\ [][Next]_vars

\* the Navigator keeps stepping: the steps of run other than a capture without
\* a frame, which a later capture with a frame makes up for
NavProgress ==
    \/ NavReset \/ NavSetGoal \/ NavEnableObstacles \/ NavSnapshot
    \/ CaptureFrame
    \/ NavPlanMove \/ NavReadCollisions \/ NavBackOff \/ NavGoalCheck \/ NavStop

\* run is a sequential program that executes its next statement, and a
\* capture with a frame is not put off for ever
FairSpec == Init /\ [][Next]_vars /\ WF_vars(NavProgress)

(***************************************************************************)
(* The episode as the claims speak of it.                                  *)
(***************************************************************************)
IsPlanned(cmd) == cmd[2] = STEP_DIST
IsBackOff(cmd) == cmd[2] < 0
IsStop(cmd)    == cmd = <<0, 0>>
NumPlanned == Cardinality({ i \in DOMAIN sent : IsPlanned(sent[i]) })
NumBackOff == Cardinality({ i \in DOMAIN sent : IsBackOff(sent[i]) })
NumStop    == Cardinality({ i \in DOMAIN sent : IsStop(sent[i]) })

\* the states of the episode runner; run leaves its loop by break (line 118)
\* with steps < MAX_STEPS, by the loop condition (line 83) otherwise
EpisodeState ==
    CASE pc \in {"reset", "set_goal", "obstacles", "snapshot"} -> "INIT"
      [] pc \in {"capture", "plan", "collisions", "backoff", "goal_check", "stop"}
            -> "RUNNING"
      [] pc = "returned" /\ steps < max_steps  -> "GOAL_REACHED"
      [] pc = "returned" /\ steps >= max_steps -> "STEP_LIMIT_EXCEEDED"
      [] pc = "raised" -> "ABORTED"
      [] OTHER -> "IDLE"

InLoop == pc \in {"capture", "plan", "collisions", "backoff", "goal_check", "stop",
                  "returned"}

C5_CollisionDelta ==
    /\ InLoop => total_collisions = last_reading - collisions0
    /\ pc = "backoff" => last_reading > prev_reading
    /\ pc \in {"goal_check", "stop"} =>
          (IsBackOff(Last(sent)) <=> last_reading > prev_reading)

\* two ticks or more, a single back-off, and a total of at least two
C5_Witness ==
    /\ pc = "returned"
    /\ total_collisions >= 2 /\ NumBackOff = 1 /\ NumPlanned >= 2

\* C6: a corrective command is (turn 0, distance -0.6 * STEP_DIST) whatever
\* the delta; it directly follows the planned command of its tick, so there
\* is one per tick at most and it precedes the stop and the planning of the
\* next tick; it is issued iff the reading exceeds the last-seen value.
C6_BackOffShape ==
    /\ \A i \in DOMAIN sent :
          IsBackOff(sent[i]) =>
              /\ sent[i][1] = 0
              /\ sent[i][2] * 10 = -6 * STEP_DIST
              /\ i > 1 /\ IsPlanned(sent[i - 1])
    /\ pc = "backoff" => (c > seen_before /\ IsPlanned(Last(sent)))
    /\ pc \in {"goal_check", "stop"} =>
          (IsBackOff(Last(sent)) <=> c > seen_before)

\* one back-off answers a delta of two
C6_Witness ==
    /\ pc = "goal_check"
    /\ c >= seen_before + 2
    /\ IsBackOff(Last(sent))

\* the outcomes of a capture that yield no frame, a payload that is not
\* base64 among them
NoFrameKinds == NoFrameReturns \cup {"bad_base64"}

\* C7: a capture that yields no frame (timeout, no image, malformed payload)
\* does not abort the episode, issues no command and leaves the step count,
\* total_collisions and the last-seen collision value as they were.
C7_AcquisitionFailureIsNoOp ==
    [][(pc = "capture" /\ acq' \in NoFrameKinds) =>
          /\ pc' # "raised"
          /\ UNCHANGED <<steps, total_collisions, coll_prev, sent>>]_vars

\* C8: the episode is in GOAL_REACHED only after a tick whose frame position
\* is within GOAL_RADIUS; the first such tick is the last tick of the episode;
\* the stop command is issued once, as the last command, and run has returned
\* when it has been issued.
C8_GoalArrival ==
    /\ EpisodeState = "GOAL_REACHED" =>
          /\ close_to_goal(pos, goal, GOAL_RADIUS)
          /\ NumStop = 1
          /\ IsStop(Last(sent))
    /\ EpisodeState = "STEP_LIMIT_EXCEEDED" => (~close_seen /\ NumStop = 0)
    /\ \A i \in DOMAIN sent :
          IsStop(sent[i]) => (i = Len(sent) /\ pc = "returned")
    /\ close_seen =>
          /\ pc \in {"plan", "collisions", "backoff", "goal_check", "stop",
                     "returned", "raised"}
          /\ pc # "raised" => close_to_goal(pos, goal, GOAL_RADIUS)
    /\ pc = "stop" => close_to_goal(pos, goal, GOAL_RADIUS)

\* the goal is reached in a later tick than the first, after a back-off
C8_Witness ==
    /\ EpisodeState = "GOAL_REACHED"
    /\ steps >= 1
    /\ Len(sent) >= 3 /\ IsBackOff(sent[Len(sent) - 1])

\* C9: the steps value run returns is the number of ticks in which a planned
\* motion command was issued, the tick that detected the goal included.
C9_StepsCountPlannedTicks ==
    pc = "returned" => steps = NumPlanned

\* C10: when no transport request fails and captures with a frame keep
\* coming, run reaches GOAL_REACHED or STEP_LIMIT_EXCEEDED and returns; after
\* that no command is issued and nothing of the episode changes.
C10_EpisodeLiveness ==
    /\ ([](error \notin {"ConnectionError", "HTTPError"})) => <>(pc = "returned")
    /\ [][pc = "returned" => UNCHANGED <<navvars, srvvars>>]_vars

(***************************************************************************)
(* SpecPick: one call of pick_heading on every input of the bounded sets.  *)
(***************************************************************************)
AngleGrid    == {-60, -30, 0, 30, 60}
CostLevels   == {0, 35, 100}
GoalBearings == {-90, -30, 0, 10, 45}
ObsWeights   == {0, OBS_W}
GoalWeights  == {0, GOAL_W}

\* CostField of the data model: angles strictly increasing
CostFields ==
    UNION { { f \in [1..n -> AngleGrid \X CostLevels] :
                \A i \in 1..(n - 1) : f[i][1] < f[i + 1][1] } : n \in 0..MaxHeadings }

\* the Navigator at rest, while pick_heading is checked on its own
NavIdle ==
    /\ pc = "idle" /\ max_steps = 0 /\ corner = "NE" /\ moving = FALSE
    /\ goal = NoPosition /\ collisions0 = 0 /\ coll_prev = 0 /\ total_collisions = 0
    /\ steps = 0 /\ pos = NoPosition /\ ang = 0 /\ c = 0 /\ error = None
    /\ collision_count = 0 /\ connected = FALSE /\ sent = <<>>
    /\ acq = None /\ retried = FALSE /\ last_reading = 0 /\ prev_reading = 0
    /\ seen_before = 0
    /\ close_seen = FALSE
    /\ trigger = 0 /\ calls = <<>>

PickInit ==
    /\ args \in [heading_costs : CostFields, goal_angle_deg : GoalBearings,
                  obs_w : ObsWeights, goal_w : GoalWeights, safe_thr : {SAFE_THR}]
    /\ ret = None
    /\ NavIdle /\ PushIdle /\ CaptureIdle /\ RaceIdle

CallPickHeading ==
    /\ ret = None
    /\ ret' = pick_heading(args.heading_costs, args.goal_angle_deg,
                           args.obs_w, args.goal_w, args.safe_thr)
    /\ UNCHANGED <<args, navvars, srvvars, histvars, pushvars, capvars, racevars>>

PickNext == CallPickHeading

SpecPick == PickInit /\ [][PickNext]_vars

(***************************************************************************)
(* Brute-force reference for the claims about pick_heading.                *)
(***************************************************************************)
Indices  == DOMAIN args.heading_costs
AngleAt(i) == args.heading_costs[i][1]
CostAt(i)  == args.heading_costs[i][2]
ScoreAt(i) == Score(AngleAt(i), CostAt(i), args.goal_angle_deg, args.obs_w, args.goal_w)
SafeIdx  == { i \in Indices : CostAt(i) < args.safe_thr }
Eligible == IF SafeIdx # {} THEN SafeIdx ELSE Indices
IsMinOver(S, i) == i \in S /\ \A j \in S : ScoreAt(i) <= ScoreAt(j)
Returned == ret # None

\* C1: when the field has a safe candidate, the returned angle is the angle
\* of a safe candidate and the returned score is the minimum score over the
\* safe candidates only.
C1_SafeTier ==
    (Returned /\ SafeIdx # {}) =>
        \E i \in SafeIdx : /\ ret[1] = AngleAt(i)
                            /\ ret[2] = ScoreAt(i)
                            /\ IsMinOver(SafeIdx, i)

\* an unsafe candidate scores strictly below the one returned
C1_Witness ==
    /\ Returned /\ SafeIdx # {}
    /\ \E j \in Indices \ SafeIdx : ScoreAt(j) < ret[2]

\* C2: when the field is not empty and nothing in it is safe, the returned
\* angle and score are those of a candidate minimising the score over the
\* whole field; the result is an angle of the field, never (0, inf).
C2_FallbackTier ==
    (Returned /\ Indices # {} /\ SafeIdx = {}) =>
        /\ ret[2] # Inf
        /\ \E i \in Indices : /\ ret[1] = AngleAt(i)
                                /\ ret[2] = ScoreAt(i)
                                /\ IsMinOver(Indices, i)

\* nothing is safe, and the candidate returned is not the one of least cost
C2_Witness ==
    /\ Returned /\ Indices # {} /\ SafeIdx = {}
    /\ \E i, j \in Indices : ret[1] = AngleAt(i) /\ CostAt(j) < CostAt(i)

\* C3: in both tiers, among the eligible candidates that share the minimum
\* score the first in input order (the smallest angle) is returned.
C3_TieBreak ==
    (Returned /\ Indices # {}) =>
        \E i \in Eligible : /\ IsMinOver(Eligible, i)
                             /\ \A j \in Eligible : IsMinOver(Eligible, j) => i <= j
                             /\ ret[1] = AngleAt(i)

\* two eligible candidates tie on the minimum score, in the safe tier
C3_Witness ==
    /\ Returned /\ SafeIdx # {}
    /\ \E i, j \in SafeIdx : i # j /\ IsMinOver(SafeIdx, i) /\ IsMinOver(SafeIdx, j)

\* two candidates tie on the minimum score, in the fallback tier
C3_WitnessFallback ==
    /\ Returned /\ SafeIdx = {}
    /\ \E i, j \in Indices : i # j /\ IsMinOver(Indices, i) /\ IsMinOver(Indices, j)

\* all candidates of the field have the same cost
Uniform == \A i, j \in Indices : CostAt(i) = CostAt(j)

\* the distance of candidate i's angle from the goal bearing
AngErr(i) == Abs(AngleAt(i) - args.goal_angle_deg)

\* C24: for a field (not empty) whose candidates all have the same cost, safe
\* or not, and goal_w > 0, the returned angle is the field's angle nearest to
\* the goal bearing, the smaller one of two equally near; so it is the
\* field's extreme angle when the bearing lies beyond it; and the command
\* made of it has distance STEP_DIST.
C24_UniformField ==
    (Returned /\ Indices # {} /\ Uniform /\ args.goal_w > 0) =>
        /\ \E i \in Indices :
              /\ ret[1] = AngleAt(i)
              /\ \A j \in Indices : AngErr(i) <= AngErr(j)
              /\ \A j \in Indices : AngErr(i) = AngErr(j) => AngleAt(i) <= AngleAt(j)
        /\ (\A j \in Indices : AngleAt(j) <= args.goal_angle_deg) =>
              ret[1] = AngleAt(Len(args.heading_costs))
        /\ (\A j \in Indices : AngleAt(j) >= args.goal_angle_deg) =>
              ret[1] = AngleAt(1)
        /\ step_from_heading(ret[1], STEP_DIST)[2] = STEP_DIST

\* a fully occupied field of three candidates, two of them equally near the
\* bearing: the smaller angle is returned
C24_Witness ==
    /\ Returned /\ Len(args.heading_costs) = 3 /\ Uniform /\ args.goal_w > 0
    /\ CostAt(1) >= args.safe_thr /\ args.obs_w > 0
    /\ \E i, j \in Indices : i < j /\ AngErr(i) = AngErr(j) /\ ret[1] = AngleAt(i)

\* a clear field, the bearing beyond its lowest angle
C24_WitnessClear ==
    /\ Returned /\ Len(args.heading_costs) = 3 /\ Uniform /\ args.goal_w > 0
    /\ CostAt(1) = 0
    /\ args.goal_angle_deg < AngleAt(1) /\ ret[1] = AngleAt(1)

(***************************************************************************)
(* SpecServer: the bridge server's message handler and its counter          *)
(* endpoints, each request handled whole and one after the other.           *)
(***************************************************************************)
\* the JSON values a message carries in its "collision" field ("absent": the
\* field is missing, data.get gives None)
JsonValues == {"absent", "false", "0", "true", "1"}

\* Python's truth value of a JSON value
Truthy(v) == v \notin {"absent", "null", "false", "0"}

\* what a simulator's frame shows, or that its "image" is no image at all
Images == {"near_blocked", "clear", "garbage"}

\* the answers to capture_image, without and with the robot's pose
FrameMessages ==
    { [type |-> "capture_image_response", image |-> i] : i \in Images }
    \cup { [type |-> "capture_image_response", image |-> i,
            headingDeg |-> 90, position |-> [x |-> 0, z |-> 0]] : i \in Images }

\* the messages a simulator sends (server.py lines 58-61); dict is FALSE for a
\* text that is no JSON object
WsMessages ==
    { [dict |-> TRUE, type |-> t, collision |-> v] :
          t \in {"collision", "goal_reached", "telemetry"}, v \in JsonValues }
    \cup { [dict |-> TRUE] @@ f : f \in {g \in FrameMessages : g.image = "clear"} }
    \cup { [dict |-> FALSE, type |-> "collision", collision |-> "true"] }

\* server.py line 421: asyncio.Queue(maxsize=2)
QueueMaxSize == 2

\* server.py lines 67-70: put_nowait, QueueFull swallowed
PutNowait(queue, data) ==
    IF Len(queue) < QueueMaxSize THEN Append(queue, data) ELSE queue

\* a mutant of WsMessage: the collision field is not looked at
WsMessage_AnyCollision(data) ==
    /\ connected
    /\ IF data.dict /\ data.type = "collision"
       THEN collision_count' = collision_count + 1
       ELSE UNCHANGED collision_count
    /\ handled' = [via |-> "ws"] @@ data
    /\ UNCHANGED <<goal_reached_flag, image_queue>>

\* server.py lines 58-81: the body of the message loop of ws_handler
WsMessage(data) ==
    /\ connected
    /\ IF ~data.dict
       THEN UNCHANGED <<collision_count, image_queue, goal_reached_flag>>
       ELSE IF data.type = "collision" /\ Truthy(data.collision)
       THEN /\ collision_count' = collision_count + 1
            /\ UNCHANGED <<image_queue, goal_reached_flag>>
       ELSE IF data.type = "capture_image_response"
       THEN /\ image_queue' = PutNowait(image_queue, data)
            /\ UNCHANGED <<collision_count, goal_reached_flag>>
       ELSE IF data.type = "goal_reached"
       THEN /\ goal_reached_flag' = TRUE
            /\ UNCHANGED <<collision_count, image_queue>>
       ELSE UNCHANGED <<collision_count, image_queue, goal_reached_flag>>
    /\ handled' = [via |-> "ws"] @@ data

\* the client side and what the handlers of SpecServer never touch
ServerFrame == <<pickvars, navvars, histvars, capvars, racevars, sent, ctl, msg,
                 broadcasts, iteration, goal_sent>>

\* a simulator's message arrives; the counter is raised MaxCollisions times
\* at most
WsReceive ==
    /\ \E data \in WsMessages :
          /\ WsMessage(data)
          /\ collision_count' <= MaxCollisions
    /\ UNCHANGED <<connected, response, pending, ServerFrame>>

\* server.py lines 53-56: a simulator connects
WsConnect ==
    /\ ~connected
    /\ connected' = TRUE
    /\ handled' = [via |-> "ws", type |-> "connect"]
    /\ UNCHANGED <<collision_count, goal_reached_flag, image_queue, response,
                   pending, ServerFrame>>

\* server.py lines 82-85: the last simulator disconnects, and the commands it
\* has not answered go with it
WsDisconnect ==
    /\ connected
    /\ connected' = FALSE
    /\ pending' = {}
    /\ handled' = [via |-> "ws", type |-> "disconnect"]
    /\ UNCHANGED <<collision_count, goal_reached_flag, image_queue, response,
                   ServerFrame>>

\* server.py lines 374-377
get_collisions ==
    /\ response' = [count |-> collision_count]
    /\ handled' = [via |-> "http", type |-> "GET /collisions"]
    /\ UNCHANGED <<collision_count, connected, goal_reached_flag, image_queue,
                   pending, ServerFrame>>

\* server.py lines 396-402 (goal_position, which nothing here reads, left out)
status ==
    /\ response' = [collisions |-> collision_count, goal_reached |-> goal_reached_flag]
    /\ handled' = [via |-> "http", type |-> "GET /status"]
    /\ UNCHANGED <<collision_count, connected, goal_reached_flag, image_queue,
                   pending, ServerFrame>>

\* server.py lines 379-394
reset ==
    /\ collision_count' = 0
    /\ goal_reached_flag' = FALSE
    /\ response' = [status |-> IF connected THEN "reset broadcast"
                               ELSE "reset done (no simulators connected)",
                    collisions |-> 0]
    /\ handled' = [via |-> "http", type |-> "POST /reset"]
    /\ UNCHANGED <<connected, image_queue, pending, ServerFrame>>

ServerInit ==
    /\ args = None /\ ret = None
    /\ NavIdle /\ PushIdle /\ CaptureIdle /\ RaceIdle

ServerNext ==
    \/ WsConnect \/ WsDisconnect \/ WsReceive
    \/ get_collisions \/ status \/ reset

SpecServer == ServerInit /\ [][ServerNext]_vars

\* the step handled a collision message whose collision field is truthy
CountedCollision(h) ==
    h.via = "ws" /\ h.type = "collision" /\ h.dict /\ Truthy(h.collision)

\* C11: in every step of the server, a collision message with a truthy
\* collision field raises collision_count by exactly 1, POST /reset sets it to
\* 0, and every other message or request (other WebSocket messages, GET
\* /collisions, GET /status) leaves it as it is; so it never decreases but by
\* a reset.
C11_CounterMonotone ==
    [][ /\ CASE handled'.type \in {"connect", "disconnect"} ->
                    collision_count' = collision_count
             [] handled'.via = "http" ->
                    collision_count' = IF handled'.type = "POST /reset" THEN 0
                                       ELSE collision_count
             [] OTHER ->
                    collision_count' = IF CountedCollision(handled')
                                       THEN collision_count + 1
                                       ELSE collision_count
        /\ collision_count' < collision_count => handled'.type = "POST /reset"
      ]_vars

\* after a reset was answered the counter has been raised to two, and the
\* message handled last was a collision message with a falsy collision field
C11_Witness ==
    /\ collision_count >= 2
    /\ handled.via = "ws" /\ handled.type = "collision" /\ ~Truthy(handled.collision)
    /\ response = [status |-> "reset broadcast", collisions |-> 0]

(***************************************************************************)
(* SpecCapture: the captures of one SimAPI instance, against a service     *)
(* that answers GET /last_capture with the simulator's latest capture.     *)
(***************************************************************************)
\* the timestamps of the captures: 1, 1.5 and 2
Timestamps == {10, 15, 20}

\* sim_api.py line 108: int(ts_val)
IntOf(ts_val) == (ts_val \div 10) * 10

\* the JSON bodies of /last_capture: with an image ("png") or with an empty
\* one, with a timestamp or without
Payloads ==
    { [timestamp |-> t, image |-> i, position |-> [x |-> 0, z |-> 0]] :
          t \in Timestamps, i \in {"png", ""} }
    \cup { [image |-> "png", position |-> [x |-> 0, z |-> 0]] }

\* sim_api.py lines 92-98: the polling loop passes over this answer
PassedOver(data) ==
    \/ data = NoMessage
    \/ "timestamp" \notin DOMAIN data
    \/ (last_capture_ts # NoNumber /\ data.timestamp = last_capture_ts)

\* sim_api.py line 103
NoFrame == [img |-> None, pos |-> None, ts |-> NoNumber]

\* sim_api.py lines 83-128, the answer of /last_capture staying what it is
\* while capture polls: nothing fresh until the timeout, or a payload that is
\* remembered, decoded and returned
capture ==
    /\ Len(returned) < MaxCaptures
    /\ IF PassedOver(served)
       THEN /\ cap' = NoFrame
            /\ UNCHANGED <<last_capture_ts, returned>>
       ELSE /\ last_capture_ts' = IntOf(served.timestamp)
            /\ cap' = [img |-> IF served.image = "" THEN None ELSE "image",
                       pos |-> served.position,
                       ts  |-> IntOf(served.timestamp)]
            /\ returned' = Append(returned, served)
    /\ UNCHANGED <<served, pickvars, navvars, srvvars, histvars, pushvars, racevars>>

\* the simulator stores a capture later than the one it holds
NewCapture ==
    /\ \E data \in Payloads :
          /\ data # served
          /\ (served # NoMessage /\ "timestamp" \in DOMAIN served
                /\ "timestamp" \in DOMAIN data) => data.timestamp > served.timestamp
          /\ served' = data
    /\ UNCHANGED <<last_capture_ts, cap, returned, pickvars, navvars, srvvars,
                   histvars, pushvars, racevars>>

\* /last_capture answers 404, or not at all (lines 77-81)
NoCapture ==
    /\ served # NoMessage
    /\ served' = NoMessage
    /\ UNCHANGED <<last_capture_ts, cap, returned, pickvars, navvars, srvvars,
                   histvars, pushvars, racevars>>

CaptureInit ==
    /\ args = None /\ ret = None
    /\ NavIdle /\ PushIdle /\ CaptureIdle /\ RaceIdle

CaptureNext == capture \/ NewCapture \/ NoCapture

SpecCapture == CaptureInit /\ [][CaptureNext]_vars

\* the payload capture returned a frame of last
Consumed == IF returned = <<>> THEN NoMessage ELSE Last(returned)

\* what /last_capture answers is no frame, a frame without timestamp, or the
\* frame consumed last
NothingNew ==
    \/ served = NoMessage
    \/ "timestamp" \notin DOMAIN served
    \/ served = Consumed

\* C12: a capture (a step that leaves the answer of /last_capture alone)
\* never returns a frame whose timestamp is that of the frame the previous
\* successful capture returned; when there is no frame, no timestamp, or only
\* the frame already consumed, it returns (None, None, None) and leaves the
\* last-consumed timestamp as it was.
C12_FrameDeduplication ==
    [][ served' = served =>
          /\ (returned' # returned /\ returned # <<>>) =>
                Last(returned').timestamp # Last(returned).timestamp
          /\ NothingNew =>
                /\ cap' = NoFrame
                /\ UNCHANGED <<last_capture_ts, returned>>
      ]_vars

(***************************************************************************)
(* server._plan_move_from_vision, the planner of the push controller.      *)
(* Turns are whole degrees, distances tenths (0.5 is 5).                   *)
(***************************************************************************)
\* server.py lines 198-201
max_turn_deg           == 30
forward_step           == 5
obstacle_threshold     == 150
near_blocked_threshold == 1

\* a mutant of ClampTurn: the turn is not clamped
ClampTurn_Unbounded(t) == t

\* max(-max_turn_deg, min(max_turn_deg, t)), lines 213, 220 and 238
ClampTurn(t) ==
    IF t > max_turn_deg THEN max_turn_deg
    ELSE IF t < -max_turn_deg THEN -max_turn_deg ELSE t

\* lines 205-208 and 225-228: turn in place, by which of two sides is denser
TurnInPlace(left, right) ==
    [turn |-> IF left < right THEN -max_turn_deg ELSE max_turn_deg, distance |-> 0]

\* lines 212-221: steer toward the goal marker;
\* offset * max_turn_deg = (goal_cx - w/2) / (w/2) * max_turn_deg
SteerToGoal(vision) ==
    LET w      == vision.width
        toward == ClampTurn(((2 * vision.goal_centroid - w) * max_turn_deg) \div w)
        biased == IF vision.left_density < vision.right_density
                  THEN toward - 10 ELSE toward + 10
    IN  [turn |-> IF vision.center_density > obstacle_threshold
                  THEN ClampTurn(biased) ELSE toward,
         distance |-> forward_step]

\* a mutant of YawError: the error is not wrapped
YawError_NoWrap(desired_yaw, robot_heading_deg) == desired_yaw - robot_heading_deg

\* line 237: (desired_yaw - robot_heading_deg + 540.0) % 360.0 - 180.0
YawError(desired_yaw, robot_heading_deg) ==
    ((desired_yaw - robot_heading_deg + 540) % 360) - 180

\* lines 232-241: the pose-based yaw correction
YawFallback(robot_heading_deg, robot_pos, goal_pos) ==
    LET dx             == goal_pos.x - robot_pos.x
        dz             == goal_pos.z - robot_pos.z
        desired_yaw    == Atan2Deg(dx, dz)
        yaw_err        == YawError(desired_yaw, robot_heading_deg)
        yaw_correction == ClampTurn(yaw_err)
    IN  IF Abs(yaw_correction) > 5
        THEN [turn |-> yaw_correction, distance |-> 0]
        ELSE [turn |-> 0, distance |-> forward_step]

\* lines 210-243: the rules after the near-field one
PlanBeyondNearField(vision, robot_heading_deg, robot_pos, goal_pos) ==
    IF vision.goal_visible /\ vision.goal_centroid # NoNumber
    THEN SteerToGoal(vision)
    ELSE IF vision.center_density > obstacle_threshold
    THEN TurnInPlace(vision.left_density, vision.right_density)
    ELSE IF robot_heading_deg # NoNumber /\ robot_pos # NoPosition
            /\ goal_pos # NoPosition
    THEN YawFallback(robot_heading_deg, robot_pos, goal_pos)
    ELSE [turn |-> 0, distance |-> forward_step]

\* a mutant of plan_move_from_vision: a visible goal marker is steered to
\* before the near field is looked at
plan_move_from_vision_GoalFirst(vision, robot_heading_deg, robot_pos, goal_pos) ==
    IF vision.goal_visible /\ vision.goal_centroid # NoNumber
    THEN SteerToGoal(vision)
    ELSE IF vision.near_center >= near_blocked_threshold
    THEN TurnInPlace(vision.near_left, vision.near_right)
    ELSE PlanBeyondNearField(vision, robot_heading_deg, robot_pos, goal_pos)

\* lines 187-243
plan_move_from_vision(vision, robot_heading_deg, robot_pos, goal_pos) ==
    IF vision.near_center >= near_blocked_threshold
    THEN TurnInPlace(vision.near_left, vision.near_right)
    ELSE PlanBeyondNearField(vision, robot_heading_deg, robot_pos, goal_pos)

(***************************************************************************)
(* SpecPlan: one call of _plan_move_from_vision on every input of the      *)
(* bounded sets.                                                           *)
(***************************************************************************)
\* what _analyze_image_for_goal_and_obstacles (lines 130-184) can return:
\* column counts of a frame 320 wide, around the thresholds
Densities     == {0, 150, 151}
NearDensities == {0, 1, 2}
Centroids     == {NoNumber, 0, 80, 240}
Visions ==
    [width : {320}, left_density : {0, 151}, center_density : Densities,
     right_density : {0, 151}, goal_centroid : Centroids, goal_visible : BOOLEAN,
     near_left : {0, 2}, near_center : NearDensities, near_right : {0, 2}]

\* the robot's pose as a frame message reports it, and the controller's goal
Headings       == {NoNumber, -170, 0, 50, 135, 365}
RobotPositions == {NoPosition, [x |-> 45, z |-> -50], [x |-> 0, z |-> -45],
                   [x |-> 0, z |-> 0]}
GoalPositions  == {NoPosition, corner_to_coords(<<"N", "E">>)}

PlanInit ==
    /\ args \in [vision : Visions, robot_heading_deg : Headings,
                  robot_pos : RobotPositions, goal_pos : GoalPositions]
    /\ ret = NoMessage
    /\ NavIdle /\ PushIdle /\ CaptureIdle /\ RaceIdle

CallPlanMove ==
    /\ ret = NoMessage
    /\ ret' = plan_move_from_vision(args.vision, args.robot_heading_deg,
                                    args.robot_pos, args.goal_pos)
    /\ UNCHANGED <<args, navvars, srvvars, histvars, pushvars, capvars, racevars>>

PlanNext == CallPlanMove

SpecPlan == PlanInit /\ [][PlanNext]_vars

Planned == ret # NoMessage

\* C13: whenever near_center >= 1, whatever the goal visibility, the goal
\* centroid, the far-field densities, the heading, the position and the goal,
\* the command is a turn in place (distance 0) by 30 degrees, -30 when
\* near_left < near_right and +30 otherwise.
C13_NearFieldOverride ==
    (Planned /\ args.vision.near_center >= 1) =>
        /\ ret.distance = 0
        /\ ret.turn = IF args.vision.near_left < args.vision.near_right
                      THEN -30 ELSE 30

\* the near field overrides a visible goal marker, a blocked far field and a
\* known pose at once
C13_Witness ==
    /\ Planned /\ args.vision.near_center >= 1
    /\ args.vision.goal_visible /\ args.vision.goal_centroid = 240
    /\ args.vision.center_density > 150
    /\ args.robot_heading_deg = 0 /\ args.robot_pos # NoPosition
    /\ args.goal_pos # NoPosition
    /\ args.vision.near_left < args.vision.near_right
    /\ ret.turn = -30

\* the case C14 speaks of: no goal marker visible, the near field free, and
\* heading, position and goal known
PoseFallbackCase ==
    /\ Planned
    /\ ~args.vision.goal_visible
    /\ args.vision.near_center = 0
    /\ args.robot_heading_deg # NoNumber
    /\ args.robot_pos # NoPosition /\ args.goal_pos # NoPosition

\* the yaw error (bearing of the goal minus heading) wrapped to [-180, 180]
WrappedYawErrors ==
    LET raw == goal_bearing_from_position(args.robot_pos, args.goal_pos)
                   - args.robot_heading_deg
    IN  { e \in -180..180 : (e - raw) % 360 = 0 }

\* the command is the one the clamped yaw error e asks for
IsYawCommand(e) ==
    LET clamped == IF e > 30 THEN 30 ELSE IF e < -30 THEN -30 ELSE e
    IN  IF Abs(clamped) > 5
        THEN ret.turn = clamped
        ELSE ret.turn = 0 /\ ret.distance = forward_step

\* C14: whenever no goal marker is visible, near_center = 0 and heading,
\* position and goal are known, the command is a turn by the yaw error wrapped
\* to [-180, 180] and clamped to [-30, 30] if that exceeds 5 degrees in
\* magnitude, and straight ahead (turn 0, forward step) otherwise.
C14_PoseYawFallback ==
    PoseFallbackCase => \E e \in WrappedYawErrors : IsYawCommand(e)

\* C14 as amended: the same, provided the far field ahead is clear as well
\* (center_density at most the obstacle threshold of 150).
C14_PoseYawFallbackOnClearPath ==
    (PoseFallbackCase /\ args.vision.center_density <= 150) =>
        \E e \in WrappedYawErrors : IsYawCommand(e)

\* a heading of 365 degrees with the goal dead ahead: the wrapped error of -5
\* is within the dead-band, the robot goes straight
C14_Witness ==
    /\ PoseFallbackCase /\ args.vision.center_density <= 150
    /\ args.robot_heading_deg = 365
    /\ goal_bearing_from_position(args.robot_pos, args.goal_pos) = 0
    /\ ret = [turn |-> 0, distance |-> 5]

\* the bounds of every command: a turn within the clamp, no distance but 0
\* and the forward step
BoundedCommand ==
    /\ -max_turn_deg <= ret.turn /\ ret.turn <= max_turn_deg
    /\ ret.distance \in {0, forward_step}

\* a goal marker is steered to (line 210)
MarkerSeen == args.vision.goal_visible /\ args.vision.goal_centroid # NoNumber

\* C28: every command has its turn within [-30, 30] and its distance 0 or
\* the forward step, and whenever the far-field centre density is above the
\* obstacle threshold the distance is 0.
C28_BoundedCommand ==
    Planned =>
        /\ BoundedCommand
        /\ args.vision.center_density > obstacle_threshold => ret.distance = 0

\* C28 as it holds: every command has its turn within [-30, 30] and its
\* distance 0 or the forward step, and whenever the far-field centre density
\* is above the obstacle threshold and no goal marker is steered to, the
\* distance is 0.
C28_BoundedCommandNoMarker ==
    Planned =>
        /\ BoundedCommand
        /\ (args.vision.center_density > obstacle_threshold /\ ~MarkerSeen) =>
              ret.distance = 0

\* the centre is blocked in the far field only, no marker is seen, and the
\* pose would have the robot go straight on: the command is a turn in place
C28_Witness ==
    /\ Planned /\ ~MarkerSeen
    /\ args.vision.center_density > obstacle_threshold
    /\ args.vision.near_center = 0
    /\ PoseFallbackCase /\ YawFallback(args.robot_heading_deg, args.robot_pos,
                                       args.goal_pos).distance = forward_step
    /\ ret.distance = 0 /\ Abs(ret.turn) = max_turn_deg

(***************************************************************************)
(* SpecPush: server.autonomous_controller, with the simulators that        *)
(* connect, disconnect and send frames.                                    *)
(***************************************************************************)
\* the frames the simulators of SpecPush send
PushFrames ==
    { f \in FrameMessages :
          \/ f.image \in {"garbage", "near_blocked"} /\ "headingDeg" \notin DOMAIN f
          \/ f.image = "clear" /\ "headingDeg" \in DOMAIN f }

\* server.py lines 118-127: whether the "image" of a message decodes
Decodes(m) == m.image # "garbage"

\* server.py lines 130-184, by what the frame shows
analyze_image_for_goal_and_obstacles(img) ==
    LET near == IF img = "near_blocked" THEN 2 ELSE 0
    IN  [width |-> 320, left_density |-> 0, center_density |-> 0, right_density |-> 0,
         goal_centroid |-> NoNumber, goal_visible |-> FALSE,
         near_left |-> 0, near_center |-> near, near_right |-> near]

\* what the controller and the frames' sender leave alone
PushFrame == <<ret, navvars, histvars, capvars, racevars, collision_count, sent,
               goal_reached_flag, response>>

\* the capture_image commands the controller has broadcast so far
NumRequests ==
    Cardinality({ i \in DOMAIN broadcasts : broadcasts[i].command = "capture_image" })

\* the command every capture of POST /capture stands for among the pending
\* ones (the controller's are numbered from 1)
ByEndpoint == 0

\* server.py lines 65-70: a simulator answers one of the capture_image
\* commands it was sent.  The field answers tells which; it is not in the
\* message the server receives, which carries nothing of the request.
FrameArrives ==
    /\ \E f \in PushFrames, r \in pending :
          /\ WsMessage([dict |-> TRUE, answers |-> r] @@ f)
          /\ pending' = pending \ {r}
    /\ UNCHANGED <<connected, response, ServerFrame>>

\* server.py lines 71-78: the simulator reports that the robot is at the goal
\* it was given
GoalReachedArrives ==
    /\ goal_sent # NoPosition
    /\ WsMessage([dict |-> TRUE, type |-> "goal_reached", collision |-> "absent"])
    /\ UNCHANGED <<connected, response, pending, ServerFrame>>

\* server.py lines 310-315
post_capture ==
    /\ pending' = IF connected THEN pending \cup {ByEndpoint} ELSE pending
    /\ response' = IF connected THEN [status |-> "capture command sent"]
                   ELSE [error |-> "No connected simulators."]
    /\ handled' = [via |-> "http", type |-> "POST /capture"]
    /\ UNCHANGED <<collision_count, connected, goal_reached_flag, image_queue,
                   ServerFrame>>

\* the bodies of POST /goal: a corner, or nothing of use
GoalRequests == { [corner |-> <<"N", "E">>], [corner |-> <<"S", "W">>], [speed |-> 0] }

\* server.py lines 320-333
set_goal(data) ==
    /\ IF "corner" \in DOMAIN data
       THEN LET goal_pos == corner_to_coords(data.corner)
            IN  /\ goal_sent' = IF connected THEN goal_pos ELSE goal_sent
                /\ response' = IF connected THEN [status |-> "goal set", goal |-> goal_pos]
                               ELSE [error |-> "No connected simulators."]
       ELSE /\ response' = [error |-> "Provide corner OR x, z"]
            /\ UNCHANGED goal_sent
    /\ handled' = [via |-> "http", type |-> "POST /goal"]
    /\ UNCHANGED <<collision_count, connected, goal_reached_flag, image_queue,
                   pending, pickvars, navvars, histvars, capvars, racevars, sent,
                   ctl, msg, broadcasts, iteration>>

\* a client posts a goal
PostGoal == \E data \in GoalRequests : set_goal(data)

\* lines 248-254: a simulator is connected; the goal is set
CtlStart ==
    /\ ctl = "wait_sim"
    /\ connected
    /\ broadcasts' = Append(broadcasts,
                            [command |-> "set_goal",
                             position |-> corner_to_coords(<<"N", "E">>)])
    /\ goal_sent' = corner_to_coords(<<"N", "E">>)
    /\ ctl' = "request"
    /\ UNCHANGED <<connected, image_queue, handled, msg, iteration, args, pending,
                   PushFrame>>

\* lines 257-259: the loop condition (autonomous_enabled is never cleared) and
\* the capture request, while the controller is followed
CtlRequestUpTo(max) ==
    /\ ctl = "request"
    /\ Len(broadcasts) < max
    /\ broadcasts' = Append(broadcasts, [command |-> "capture_image"])
    /\ pending' = IF connected THEN pending \cup {NumRequests + 1} ELSE pending
    /\ iteration' = "requested"
    /\ ctl' = "await"
    /\ UNCHANGED <<connected, image_queue, handled, msg, args, goal_sent, PushFrame>>

CtlRequest == CtlRequestUpTo(MaxBroadcasts)

\* lines 262-264: nothing in the queue for 2 s; continue
CtlTimeout ==
    /\ ctl = "await"
    /\ image_queue = <<>>
    /\ iteration' = "timeout"
    /\ ctl' = "request"
    /\ UNCHANGED <<connected, image_queue, handled, msg, broadcasts, args, pending,
                   goal_sent, PushFrame>>

\* line 262: image_queue.get() returns the oldest frame
CtlReceive ==
    /\ ctl = "await"
    /\ image_queue # <<>>
    /\ msg' = Head(image_queue)
    /\ image_queue' = Tail(image_queue)
    /\ iteration' = "received"
    /\ ctl' = "decode"
    /\ UNCHANGED <<connected, handled, broadcasts, args, pending, goal_sent,
                   PushFrame>>

\* a mutant of CtlDecode: a frame that does not decode is planned on
CtlDecode_NoContinue ==
    /\ ctl = "decode"
    /\ iteration' = IF Decodes(msg) THEN "decoded" ELSE "decode_failed"
    /\ ctl' = "plan"
    /\ UNCHANGED <<connected, image_queue, handled, msg, broadcasts, args, pending,
                   goal_sent, PushFrame>>

\* lines 265-269: the image is decoded; continue when that fails
CtlDecode ==
    /\ ctl = "decode"
    /\ IF Decodes(msg)
       THEN iteration' = "decoded" /\ ctl' = "plan"
       ELSE iteration' = "decode_failed" /\ ctl' = "request"
    /\ UNCHANGED <<connected, image_queue, handled, msg, broadcasts, args, pending,
                   goal_sent, PushFrame>>

\* lines 270-276: the move is planned and broadcast
CtlPlanMove ==
    /\ ctl = "plan"
    /\ LET vision   == analyze_image_for_goal_and_obstacles(msg.image)
           heading  == IF "headingDeg" \in DOMAIN msg THEN msg.headingDeg ELSE NoNumber
           position == IF "position" \in DOMAIN msg THEN msg.position ELSE NoPosition
           goal_pos == corner_to_coords(<<"N", "E">>)
           plan     == plan_move_from_vision(vision, heading, position, goal_pos)
       IN  /\ args' = [vision |-> vision, robot_heading_deg |-> heading,
                       robot_pos |-> position, goal_pos |-> goal_pos]
           /\ broadcasts' = Append(broadcasts,
                                   [command |-> "move_relative", turn |-> plan.turn,
                                    distance |-> plan.distance])
    /\ ctl' = "sleep"
    /\ UNCHANGED <<connected, image_queue, handled, msg, iteration, pending, goal_sent,
                   PushFrame>>

\* line 277: the pause before the next iteration
CtlSleep ==
    /\ ctl = "sleep"
    /\ ctl' = "request"
    /\ UNCHANGED <<connected, image_queue, handled, msg, broadcasts, iteration,
                   args, pending, goal_sent, PushFrame>>

PushInit ==
    /\ args = NoMessage /\ ret = None
    /\ NavIdle /\ CaptureIdle /\ RaceIdle
    /\ goal_reached_flag = FALSE /\ image_queue = <<>>
    /\ handled = NoMessage /\ response = NoMessage
    /\ ctl = "wait_sim" /\ msg = NoMessage /\ broadcasts = <<>> /\ iteration = "none"
    /\ pending = {} /\ goal_sent = NoPosition

PushNext ==
    \/ WsConnect \/ WsDisconnect \/ FrameArrives
    \/ CtlStart \/ CtlRequest \/ CtlTimeout \/ CtlReceive \/ CtlDecode
    \/ CtlPlanMove \/ CtlSleep

SpecPush == PushInit /\ [][PushNext]_vars

\* the controller passes a message to broadcast in this step
Broadcasting == Len(broadcasts') > Len(broadcasts)

\* C15: the controller broadcasts move_relative only in an iteration in which
\* a frame was received and decoded, and the first message it broadcasts
\* after a timeout or a decode failure is a capture_image request.
C15_NoCommandWithoutFrame ==
    [][ Broadcasting =>
          /\ Last(broadcasts').command = "move_relative" =>
                (iteration = "decoded" /\ Decodes(msg))
          /\ iteration \in {"timeout", "decode_failed"} =>
                Last(broadcasts').command = "capture_image"
      ]_vars

\* a move is broadcast after two capture requests in a row: the first
\* iteration ended by a timeout or a decode failure
C15_Witness ==
    /\ Len(broadcasts) >= 4
    /\ broadcasts[2].command = "capture_image"
    /\ broadcasts[3].command = "capture_image"
    /\ broadcasts[4].command = "move_relative"

(***************************************************************************)
(* SpecTrial: the controller during the trials of experiment.py, which     *)
(* posts /reset and /goal (run_trial, lines 36-39) and waits for the       *)
(* simulator's goal_reached.                                               *)
(***************************************************************************)
TrialRequest == CtlRequestUpTo(MaxTrialBroadcasts)

TrialNext ==
    \/ WsConnect \/ WsDisconnect \/ FrameArrives \/ GoalReachedArrives
    \/ CtlStart \/ TrialRequest \/ CtlTimeout \/ CtlReceive \/ CtlDecode
    \/ CtlPlanMove \/ CtlSleep
    \/ PostGoal \/ reset

SpecTrial == PushInit /\ [][TrialNext]_vars

\* C25: while goal_reached_flag is set, the controller broadcasts neither
\* move_relative nor capture_image.
C25_PushTerminal ==
    [][ (goal_reached_flag /\ Broadcasting) =>
            Last(broadcasts').command \notin {"move_relative", "capture_image"}
      ]_vars

\* C26: the goal_pos the controller passes to _plan_move_from_vision is the
\* position of the latest set_goal command broadcast to the simulator.
C26_GoalFollowsSetGoal ==
    [][ (ctl = "plan" /\ ctl' = "sleep") => args'.goal_pos = goal_sent ]_vars

(***************************************************************************)
(* SpecQueue: the controller and image_queue, with a client that triggers  *)
(* captures of its own through POST /capture.                              *)
(***************************************************************************)
QueueNext ==
    \/ WsConnect \/ WsDisconnect \/ FrameArrives
    \/ CtlStart \/ TrialRequest \/ CtlTimeout \/ CtlReceive \/ CtlDecode
    \/ CtlPlanMove \/ CtlSleep
    \/ post_capture

SpecQueue == PushInit /\ [][QueueNext]_vars

\* C27: every move_relative is planned on the frame that answers the
\* controller's latest capture_image command; image_queue never holds more
\* than two frames; and a frame that arrives at a full queue leaves the
\* queue as it is, the handler going on to the next message.
C27_FrameAnswersRequest ==
    [][ /\ (ctl = "plan" /\ ctl' = "sleep") => msg.answers = NumRequests
        /\ Len(image_queue') <= QueueMaxSize
        /\ (Len(image_queue) = QueueMaxSize /\ handled' # handled) =>
              image_queue' = image_queue
      ]_vars

(***************************************************************************)
(* Goal resolution and transport failures of the polling client.           *)
(***************************************************************************)
\* the corner names of the specification: the compass names and their aliases
CompassNames == {<<"N", "E">>, <<"N", "W">>, <<"S", "E">>, <<"S", "W">>}
AliasOf(name) ==
    CASE name = <<"N", "E">> -> <<"T", "R">>
      [] name = <<"N", "W">> -> <<"T", "L">>
      [] name = <<"S", "E">> -> <<"B", "R">>
      [] name = <<"S", "W">> -> <<"B", "L">>
NamedCorners == CompassNames \cup { AliasOf(n) : n \in CompassNames }

\* agent.py lines 33-55: the corner table Navigator.set_goal falls back to
\* when the answer to /goal carries neither "goal" nor "position"
FallbackGoal(name) ==
    LET alias == IF name \in CompassNames THEN AliasOf(name)
                 ELSE IF name \in NamedCorners THEN name
                 ELSE <<"N", "E">>
    IN  CASE alias = <<"T", "L">> -> [x |-> -45, z |-> 45]
          [] alias = <<"T", "R">> -> [x |-> 45, z |-> 45]
          [] alias = <<"B", "L">> -> [x |-> -45, z |-> -45]
          [] alias = <<"B", "R">> -> [x |-> 45, z |-> -45]
          [] alias = <<"N", "E">> -> [x |-> 45, z |-> 45]

\* C16: when the corner of the episode is none of NE, NW, SE, SW, TR, TL, BR,
\* BL, setup fails: no goal position is resolved, the episode never enters
\* RUNNING (nor a state after it) and no motion command is issued.
C16_InvalidGoalIsFatal ==
    corner \notin NamedCorners =>
        /\ goal = NoPosition
        /\ EpisodeState \in {"INIT", "ABORTED"}
        /\ sent = <<>>

\* C17: for each of the eight corner names the server's corner_to_coords and
\* the client's fallback table give the same point (so the goal the server
\* resolved for the episode is the one the client's table holds); an alias
\* resolves like its compass name, |x| = |z| = half-extent minus margin, and
\* the four corners are pairwise distinct.
C17_ConsistentCorners ==
    (goal # NoPosition /\ corner \in NamedCorners) =>
        /\ goal = FallbackGoal(corner)
        /\ \A n \in NamedCorners : corner_to_coords(n) = FallbackGoal(n)
        /\ \A n \in CompassNames :
              /\ corner_to_coords(AliasOf(n)) = corner_to_coords(n)
              /\ FallbackGoal(AliasOf(n)) = FallbackGoal(n)
        /\ \A n \in NamedCorners :
              /\ Abs(corner_to_coords(n).x) = FLOOR_HALF - CornerMargin
              /\ Abs(corner_to_coords(n).z) = FLOOR_HALF - CornerMargin
              /\ Abs(FallbackGoal(n).x) = FLOOR_HALF - CornerMargin
              /\ Abs(FallbackGoal(n).z) = FLOOR_HALF - CornerMargin
        /\ \A n, m \in CompassNames :
              n # m => /\ corner_to_coords(n) # corner_to_coords(m)
                       /\ FallbackGoal(n) # FallbackGoal(m)

\* C18: once a request of the run has failed (the server not reached, or a
\* non-2xx answer, that of the capture trigger included), run has ended
\* with the error raised to its caller.
C18_TransportFailureAborts ==
    (trigger = 400 \/ error \in {"ConnectionError", "HTTPError"}) => pc = "raised"

(***************************************************************************)
(* The order of the requests of Navigator.run.                             *)
(***************************************************************************)
\* the requests of a whole INIT, in order
InitCalls ==
    <<"reset", "set_goal">> \o (IF moving THEN <<"obstacle_motion">> ELSE <<>>)
        \o <<"collisions">>

\* run has come to its loop: it has tried to acquire a frame, or is about to
LoopEntered == acq # None \/ sent # <<>> \/ pc \in {"capture", "returned"}

\* C22: the requests run issues before its loop are reset, set_goal, the
\* obstacle motion when asked for, and the collision snapshot, each once and
\* in this order; all of them have been issued when the first frame is
\* acquired or the first motion command sent; and no step after the reset
\* lowers the collision counter.
C22_InitOrdering ==
    [][ /\ Len(calls') <= Len(InitCalls)
        /\ calls' = SubSeq(InitCalls, 1, Len(calls'))
        /\ LoopEntered' => calls' = InitCalls
        /\ collision_count' < collision_count => pc = "reset"
      ]_vars

\* an episode with moving obstacles has returned after motion commands, all
\* four requests of INIT issued before them
C22_Witness ==
    /\ pc = "returned" /\ moving /\ sent # <<>>
    /\ calls = <<"reset", "set_goal", "obstacle_motion", "collisions">>

\* the angles of a cost field of run: those of np.linspace over the field of
\* view (vision.py lines 18-32), whatever the frame shows
FieldAngles ==
    { sample_headings(mask, NUM_HEADINGS, FOV_DEG)[i][1] :
          mask \in Masks, i \in 1..NUM_HEADINGS }

\* C23: every motion command run issues is the planned step of its tick
\* (distance STEP_DIST, the turn the angle pick_heading returned, unchanged,
\* and an angle of the tick's cost field), the back-off (0, -0.6 STEP_DIST),
\* or the stop (0, 0); and whenever a tick is counted, the planned steps
\* issued so far are as many as the ticks counted: one for each.
C23_CommandShapes ==
    [][ /\ sent' # sent =>
              /\ Len(sent') = Len(sent) + 1
              /\ SubSeq(sent', 1, Len(sent)) = sent
              /\ CASE pc = "plan"    -> /\ Last(sent') = <<ang', STEP_DIST>>
                                        /\ ang' \in FieldAngles
                   [] pc = "backoff" -> Last(sent') = <<0, BackOffDist>>
                   [] pc = "stop"    -> Last(sent') = <<0, 0>>
                   [] OTHER          -> FALSE
        /\ steps' = steps + 1 => NumPlanned' = steps'
      ]_vars

\* an episode has ended at the goal after a counted tick, with commands of
\* all three kinds sent, a planned step with a turn to the edge of the field
\* of view among them
C23_Witness ==
    /\ pc = "returned" /\ steps >= 1
    /\ \E i \in DOMAIN sent : IsPlanned(sent[i]) /\ sent[i][1] = -(FOV_DEG \div 2)
    /\ \E i \in DOMAIN sent : sent[i] = <<0, BackOffDist>>
    /\ Last(sent) = <<0, 0>>

(***************************************************************************)
(* SpecGeom: one call of planner.close_to_goal or of                       *)
(* planner.goal_bearing_from_position on every input of the bounded sets.  *)
(***************************************************************************)
\* robot positions, with the height y the simulator reports along
GeomPositions == [x : {-45, 0, 42}, y : {0, 2}, z : {-45, 0}]

\* goal - pos in the plane: on the circles of radius 3 and 5, inside and
\* outside of them, on the axes, on the diagonals and off both
GeomOffsets == {<<0, 0>>, <<0, 3>>, <<0, -3>>, <<3, 0>>, <<-3, 0>>, <<0, 4>>,
                <<2, 2>>, <<-2, 2>>, <<3, -3>>, <<-3, -3>>, <<3, 4>>, <<-4, 3>>,
                <<4, 4>>, <<0, 5>>, <<5, 0>>, <<0, 6>>}
GeomRadii  == {3, 5}
GeomShifts == {<<0, 0>>, <<7, -2>>, <<-45, 45>>}

Translate(p, t) == [p EXCEPT !.x = p.x + t[1], !.z = p.z + t[2]]

\* atan2 of the offset is a whole number of degrees
WholeBearing(p, g) ==
    LET dx == g.x - p.x
        dz == g.z - p.z
    IN  dx = 0 \/ dz = 0 \/ dx = dz \/ dx = -dz

GeomInit ==
    /\ \E p \in GeomPositions, d \in GeomOffsets, gy \in {0, 1},
          r \in GeomRadii, t \in GeomShifts :
          args = [pos |-> p,
                  goal |-> [x |-> p.x + d[1], y |-> gy, z |-> p.z + d[2]],
                  radius |-> r, shift |-> t]
    /\ ret = NoMessage
    /\ NavIdle /\ PushIdle /\ CaptureIdle /\ RaceIdle

CallCloseToGoal ==
    /\ ret = NoMessage
    /\ ret' = [fn |-> "close_to_goal",
               value |-> close_to_goal(args.pos, args.goal, args.radius)]
    /\ UNCHANGED <<args, navvars, srvvars, histvars, pushvars, capvars, racevars>>

\* the bearing of the goal, and the bearing after pos and goal were moved by
\* the same vector
CallGoalBearing ==
    /\ ret = NoMessage
    /\ WholeBearing(args.pos, args.goal)
    /\ ret' = [fn |-> "goal_bearing_from_position",
               value |-> goal_bearing_from_position(args.pos, args.goal),
               moved |-> goal_bearing_from_position(Translate(args.pos, args.shift),
                                                    Translate(args.goal, args.shift))]
    /\ UNCHANGED <<args, navvars, srvvars, histvars, pushvars, capvars, racevars>>

GeomNext == CallCloseToGoal \/ CallGoalBearing

SpecGeom == GeomInit /\ [][GeomNext]_vars

\* the square of the planar distance between pos and goal
PlanarDistSq ==
    (args.goal.x - args.pos.x) * (args.goal.x - args.pos.x)
        + (args.goal.z - args.pos.z) * (args.goal.z - args.pos.z)

\* C19: close_to_goal returns true iff the planar distance between pos and
\* goal (x and z only) is at most the radius, true at a distance equal to the
\* radius, and the same whatever the y of pos and of goal.
C19_CloseToGoal ==
    (ret # NoMessage /\ ret.fn = "close_to_goal") =>
        /\ ret.value <=> PlanarDistSq <= args.radius * args.radius
        /\ PlanarDistSq = args.radius * args.radius => ret.value
        /\ \A y1 \in {0, 2}, y2 \in {0, 1} :
              ret.value = close_to_goal([args.pos EXCEPT !.y = y1],
                                        [args.goal EXCEPT !.y = y2], args.radius)

\* the goal is at the radius exactly, off the axes, at another height than
\* the robot
C19_Witness ==
    /\ ret # NoMessage /\ ret.fn = "close_to_goal"
    /\ PlanarDistSq = args.radius * args.radius
    /\ args.goal.x # args.pos.x /\ args.goal.z # args.pos.z
    /\ args.goal.y # args.pos.y
    /\ ret.value

\* C20: the bearing is the same after pos and goal are moved by the same
\* vector, and it is 0 when goal.x = pos.x and goal.z > pos.z.
C20_BearingRelative ==
    (ret # NoMessage /\ ret.fn = "goal_bearing_from_position") =>
        /\ ret.moved = ret.value
        /\ (args.goal.x = args.pos.x /\ args.goal.z > args.pos.z) => ret.value = 0

\* the goal is straight ahead along +z and both points were moved
C20_Witness ==
    /\ ret # NoMessage /\ ret.fn = "goal_bearing_from_position"
    /\ args.goal.x = args.pos.x /\ args.goal.z > args.pos.z
    /\ args.shift = <<-45, 45>> /\ args.pos.x # 0
    /\ ret.value = 0 /\ ret.moved = 0

(***************************************************************************)
(* SpecThreads: the two threads of server.py (lines 431-434) at            *)
(* collision_count.  ws_handler runs in the asyncio thread, the endpoints  *)
(* in the Flask thread; no lock guards the global, so the read and the     *)
(* write of line 64 are steps of their own, with the Flask thread's        *)
(* statements in between wherever the interpreter switches threads.        *)
(***************************************************************************)
\* the collision message of SpecThreads
CollisionMessage == [dict |-> TRUE, type |-> "collision", collision |-> "true"]

\* what the two threads leave alone at the counter
ThreadsFrame == <<pickvars, navvars, histvars, capvars, sent, ctl, msg, broadcasts,
                  iteration, goal_sent, pending, image_queue>>

\* server.py lines 58-64: a collision message with a truthy collision field;
\* collision_count += 1 reads the global
HandlerLoad ==
    /\ connected
    /\ loaded = NoNumber
    /\ collision_count < MaxCollisions
    /\ loaded' = collision_count
    /\ UNCHANGED <<collision_count, connected, goal_reached_flag, handled, response,
                   since_reset, flask, ThreadsFrame>>

\* server.py line 64: the sum is stored, and the message is handled
HandlerStore ==
    /\ loaded # NoNumber
    /\ collision_count' = loaded + 1
    /\ loaded' = NoNumber
    /\ since_reset' = since_reset + 1
    /\ handled' = [via |-> "ws"] @@ CollisionMessage
    /\ UNCHANGED <<connected, goal_reached_flag, response, flask, ThreadsFrame>>

\* server.py lines 58-81: any other message, between two collision messages
HandlerOther ==
    /\ loaded = NoNumber
    /\ \E data \in WsMessages :
          /\ ~(data.dict /\ data.type = "collision" /\ Truthy(data.collision))
          /\ WsMessage(data)
    /\ UNCHANGED <<connected, response, pending, ServerFrame>>

\* server.py lines 382-390: the stores of reset
ResetStores ==
    /\ flask = "idle"
    /\ collision_count' = 0
    /\ goal_reached_flag' = FALSE
    /\ since_reset' = 0
    /\ flask' = "reset_answer"
    /\ UNCHANGED <<connected, handled, response, loaded, ThreadsFrame>>

\* server.py lines 391-394: the answer of reset reads the counter again
ResetAnswers ==
    /\ flask = "reset_answer"
    /\ response' = [status |-> IF connected THEN "reset broadcast"
                               ELSE "reset done (no simulators connected)",
                    collisions |-> collision_count]
    /\ handled' = [via |-> "http", type |-> "POST /reset"]
    /\ flask' = "idle"
    /\ UNCHANGED <<collision_count, connected, goal_reached_flag, loaded,
                   since_reset, ThreadsFrame>>

\* a simulator disconnects while none of its messages is being handled
ThreadsDisconnect == loaded = NoNumber /\ WsDisconnect

ThreadsInit ==
    /\ args = None /\ ret = None
    /\ NavIdle /\ PushIdle /\ CaptureIdle /\ RaceIdle

ThreadsNext ==
    \/ WsConnect \/ ThreadsDisconnect
    \/ HandlerLoad \/ HandlerStore \/ HandlerOther
    \/ ResetStores \/ ResetAnswers
    \/ get_collisions \/ status

SpecThreads == ThreadsInit /\ [][ThreadsNext]_vars

\* C21: whatever the interleaving of the handler's and the reset's steps, GET
\* /collisions answers the number of collision messages handled since the
\* most recent reset.
C21_SingleWriterCounter ==
    [][ get_collisions => response'.count = since_reset ]_vars
====
